---- MODULE Spec2Model ----
(***************************************************************************)
(* Model of checkimpht.py: the IMPHTTAB consistency checker, and of        *)
(* compfits.py: the comparison of two FITS files.                          *)
(*                                                                         *)
(* Strings are sequences of one-character strings, so that the code's      *)
(* indexing (datacol[-1], datacol[:-1]), formatting ('NELEM{}'.format(x))  *)
(* and str()/int() conversions are computed and not assumed.               *)
(* A table value is a record [kind, n, a, s]: a native scalar number       *)
(* (kind "int"), an array (kind "arr", elements in a) or a string          *)
(* (kind "str", characters in s).  A row is a function from column names   *)
(* to values; a column the row lacks is outside its DOMAIN.                *)
(***************************************************************************)
EXTENDS Integers, Sequences, FiniteSets, TLC

VARIABLES
    pc,        \* position of the program / of the function under check
    header,    \* primary header: [keys, nextend, parnum]
    numExt,    \* len(self.fits) - 1
    num_ext,   \* self.num_ext (-1 before read_header)
    num_par,   \* self.num_par (-1 before read_header); the argument of the row checks
    extPos,    \* number of extensions check_ext_data has started on
    ext,       \* data of the extension last read: a sequence of rows
    row,       \* the row handed to the row checks
    out,       \* findings printed by the last step
    exc,       \* exception the last step raised ("none" when it returned)
    ran,       \* names of the checks that have been entered so far
    res,       \* whole result record of the last row / extension step
    comp       \* compfits.py: the CompareFits object of comp_fits

vars == <<pc, header, numExt, num_ext, num_par, extPos, ext, row, out, exc, ran, res, comp>>

----------------------------------------------------------------------------
(* Bounds of the model                                                     *)

MaxPar == 2        \* rows are generated for num_par in 1..MaxPar
MaxParWide == 10   \* one-change rows are generated for num_par up to MaxParWide
MaxExt == 2        \* a file holds 0..MaxExt extensions
MaxNelem == 2      \* NELEM# of a valid row is in 1..MaxNelem
MaxRows == 2       \* an extension holds 0..MaxRows rows
MaxAbsent == 2     \* check_header_keys is run on headers that lack up to MaxAbsent keys
MaxHdu == 2        \* a FITS file handed to comp_fits holds 1..MaxHdu HDUs

\* no CompareFits object
NoComp == [made |-> FALSE]

----------------------------------------------------------------------------
(* Strings                                                                 *)

DigitChars == <<"0", "1", "2", "3", "4", "5", "6", "7", "8", "9">>

\* str(x) for a non-negative integer
RECURSIVE Str(_)
Str(x) == IF x < 10 THEN <<DigitChars[x + 1]>>
          ELSE Str(x \div 10) \o <<DigitChars[(x % 10) + 1]>>

\* int(c) for a string of one decimal digit
IntOfChar(c) == (CHOOSE d \in 1..10 : <<DigitChars[d]>> = c) - 1

\* s[-1] and s[:-1] of a non-empty string
LastChar(s) == <<s[Len(s)]>>
DropLast(s) == SubSeq(s, 1, Len(s) - 1)

\* [f(x) for x in range(lo, hi)]
RECURSIVE Range(_, _)
Range(lo, hi) == IF lo >= hi THEN <<>> ELSE <<lo>> \o Range(lo + 1, hi)

SeqMember(x, list) == \E k \in 1..Len(list) : list[k] = x

s_datacol == <<"d", "a", "t", "a", "c", "o", "l">>
s_obsmode == <<"o", "b", "s", "m", "o", "d", "e">>
s_NELEM   == <<"N", "E", "L", "E", "M">>
s_PAR     == <<"P", "A", "R">>
s_NAMES   == <<"N", "A", "M", "E", "S">>
s_VALUES  == <<"V", "A", "L", "U", "E", "S">>

\* 'NELEM{}'.format(x), 'PAR{}NAMES'.format(x), 'PAR{}VALUES'.format(x), '{}{}'.format(d, x)
NelemName(x)     == s_NELEM \o Str(x)
ParNamesName(x)  == s_PAR \o Str(x) \o s_NAMES
ParValuesName(x) == s_PAR \o Str(x) \o s_VALUES
DataName(d, x)   == d \o Str(x)

----------------------------------------------------------------------------
(* Values                                                                  *)

IntV(n) == [kind |-> "int", n |-> n, a |-> <<>>, s |-> <<>>]
ArrV(a) == [kind |-> "arr", n |-> 0, a |-> a, s |-> <<>>]
StrV(s) == [kind |-> "str", n |-> 0, a |-> <<>>, s |-> s]
NoV     == [kind |-> "none", n |-> 0, a |-> <<>>, s |-> <<>>]

\* v == 0 and v == '' of Python: values of different types are never equal
EqInt0(v)  == v.kind = "int" /\ v.n = 0
EqEmpty(v) == v.kind = "str" /\ v.s = <<>>

\* v.tolist() exists for arrays only
HasToList(v) == v.kind = "arr"
\* v.tolist() != [0]
NotZeroList(v) == v.a # <<0>>
\* len(v) is defined for arrays and strings
HasLen(v) == v.kind \in {"arr", "str"}
PyLen(v) == IF v.kind = "arr" THEN Len(v.a) ELSE Len(v.s)

----------------------------------------------------------------------------
(* The running result of a function: what it printed, the exception that   *)
(* ended it, the columns it looked up, and the binding of the local p.     *)

Finding(kind, col, e, r, exp, act, val) ==
    [kind |-> kind, col |-> col, ext |-> e, row |-> r, exp |-> exp, act |-> act, val |-> val,
     key |-> ""]

\* a finding about the primary header
HeaderFinding(kind, key, exp, act) ==
    [kind |-> kind, col |-> <<>>, ext |-> 0, row |-> 0, exp |-> exp, act |-> act, val |-> NoV,
     key |-> key]

R0 == [findings |-> <<>>, exc |-> "none", reads |-> {}, pbound |-> FALSE, p |-> <<>>,
       case |-> "none", data_len |-> 1]

Emit(o, f)  == [o EXCEPT !.findings = Append(@, f)]
Raise(o, e) == [o EXCEPT !.exc = e]
Ok(o)       == o.exc = "none"

\* row[c]: KeyError when the row has no such column
Lookup(o, r, c) == IF c \in DOMAIN r THEN [o EXCEPT !.reads = @ \cup {c}]
                   ELSE Raise([o EXCEPT !.reads = @ \cup {c}], "KeyError")

\* for x in list: body  (an exception ends the loop); checkimpht.py:149, 161, 170
RECURSIVE ForEach(_, _, _)
ForEach(Body(_, _), o, list) ==
    IF list = <<>> \/ ~Ok(o) THEN o
    ELSE ForEach(Body, Body(o, Head(list)), Tail(list))

\* for p in ...: binds the function's local p
BindP(o, name) == [o EXCEPT !.pbound = TRUE, !.p = name]

\* list.remove(x): drops the first element equal to x
RECURSIVE RemoveFirst(_, _)
RemoveFirst(list, x) ==
    IF list = <<>> THEN <<>>
    ELSE IF Head(list) = x THEN Tail(list)
    ELSE <<Head(list)>> \o RemoveFirst(Tail(list), x)

\* zip(l1, l2)
Zip(l1, l2) == [k \in 1..(IF Len(l1) < Len(l2) THEN Len(l1) ELSE Len(l2)) |-> <<l1[k], l2[k]>>]

----------------------------------------------------------------------------
(* check_row                                                               *)

ParIndexStrs_OffByOne(P) == [k \in 1..Len(Range(1, P)) |-> Str(Range(1, P)[k])]

\* [str(x) for x in range(1,num_par+1)]
ParIndexStrs(P) == [k \in 1..Len(Range(1, P + 1)) |-> Str(Range(1, P + 1)[k])]

\* datacol[-1] not in [str(x) for x in range(1,num_par+1)]
IsPlainCase(P, datacol) == ~SeqMember(LastChar(datacol), ParIndexStrs(P))

\* a use of the local p in a print: p is a local of check_row (it is assigned by
\* the 'for p in' loops further down), so a use before the first of those loops
\* raises UnboundLocalError, which 'except AttributeError' does not catch
UseP(o, r, kind, col, e, rn) ==
    IF ~o.pbound THEN Raise(o, "UnboundLocalError")
    ELSE LET o2 == Lookup(o, r, o.p)
         IN  IF ~Ok(o2) THEN o2
             ELSE Emit(o2, Finding(kind, IF col = <<>> THEN o.p ELSE col, e, rn, 0, 0, r[o.p]))

\* the try/except block of the data-column loops (lines 150-156 and 230-236)
CheckDataZero(o, r, d, e, rn) ==
    LET o1 == Lookup(o, r, d)
    IN  IF ~Ok(o1) THEN o1
        ELSE IF HasToList(r[d])
             THEN IF NotZeroList(r[d])
                  THEN UseP(o1, r, "not_zero_array", d, e, rn)
                  ELSE o1
             ELSE UseP(o1, r, "not_array", <<>>, e, rn)

\* the try/except block of the PAR#VALUES loops (lines 170-176 and 271-277)
CheckParValZero(o, r, p, e, rn) ==
    LET o1 == Lookup(BindP(o, p), r, p)
    IN  IF ~Ok(o1) THEN o1
        ELSE IF HasToList(r[p])
             THEN IF NotZeroList(r[p])
                  THEN Emit(o1, Finding("not_zero_array", p, e, rn, 0, 0, r[p]))
                  ELSE o1
             ELSE Emit(o1, Finding("not_array", p, e, rn, 0, 0, r[p]))

\* if row[p] != '': ... should be blank   (lines 162-164 and 253-255)
CheckNameBlank(o, r, p, e, rn) ==
    LET o1 == Lookup(BindP(o, p), r, p)
    IN  IF ~Ok(o1) THEN o1
        ELSE IF ~EqEmpty(r[p]) THEN Emit(o1, Finding("not_blank", p, e, rn, 0, 0, r[p]))
        ELSE o1

\* if row[p] == '': ... is blank when it shouldn't be   (lines 245-247)
CheckNameSet(o, r, p, e, rn) ==
    LET o1 == Lookup(BindP(o, p), r, p)
    IN  IF ~Ok(o1) THEN o1
        ELSE IF EqEmpty(r[p]) THEN Emit(o1, Finding("blank", p, e, rn, 0, 0, NoV))
        ELSE o1

CheckIsZero_Skip(o, r, n, e, rn) == Lookup(o, r, n)

\* if row[n] != 0: ... is not 0   (lines 181-184, 192-194 and 220-222)
CheckIsZero(o, r, n, e, rn) ==
    LET o1 == Lookup(o, r, n)
    IN  IF ~Ok(o1) THEN o1
        ELSE IF ~EqInt0(r[n]) THEN Emit(o1, Finding("not_0", n, e, rn, 0, 0, r[n]))
        ELSE o1

CheckNelemProduct_SkipZero(o, r, n, e, rn) ==
    IF n \notin DOMAIN r THEN Raise([o EXCEPT !.reads = @ \cup {n}], "KeyError")
    ELSE IF r[n].kind = "int" /\ r[n].n = 0
         THEN [o EXCEPT !.reads = @ \cup {n},
                        !.findings = Append(@, Finding("zero", n, e, rn, 0, 0, NoV))]
         ELSE [o EXCEPT !.reads = @ \cup {n}, !.data_len = @ * r[n].n]

\* the body of the NELEM product loop (lines 206-210)
CheckNelemProduct(o, r, n, e, rn) ==
    LET o1 == Lookup(o, r, n)
    IN  IF ~Ok(o1) THEN o1
        ELSE LET o2 == IF EqInt0(r[n]) THEN Emit(o1, Finding("zero", n, e, rn, 0, 0, NoV))
                       ELSE o1
             IN  [o2 EXCEPT !.data_len = @ * r[n].n]

\* if len(row[datacol]) != data_len   (lines 212-214)
CheckDataLen(o, r, datacol, e, rn) ==
    LET o1 == Lookup(o, r, datacol)
    IN  IF ~Ok(o1) THEN o1
        ELSE IF ~HasLen(r[datacol]) THEN Raise(o1, "TypeError")
        ELSE IF PyLen(r[datacol]) # o1.data_len
             THEN Emit(o1, Finding("length", datacol, e, rn, o1.data_len, PyLen(r[datacol]), NoV))
        ELSE o1

CheckParValLen_Skip(o, r, pn, e, rn) ==
    IF ~Ok(Lookup(BindP(o, pn[1]), r, pn[1])) THEN Lookup(BindP(o, pn[1]), r, pn[1])
    ELSE Lookup(Lookup(BindP(o, pn[1]), r, pn[1]), r, pn[2])

\* if len(row[p]) != row[n]   (lines 263-265)
CheckParValLen(o, r, pn, e, rn) ==
    LET p  == pn[1]
        n  == pn[2]
        o1 == Lookup(BindP(o, p), r, p)
    IN  IF ~Ok(o1) THEN o1
        ELSE IF ~HasLen(r[p]) THEN Raise(o1, "TypeError")
        ELSE LET o2 == Lookup(o1, r, n)
             IN  IF ~Ok(o2) THEN o2
                 ELSE IF r[n].kind # "int" \/ PyLen(r[p]) # r[n].n
                      THEN Emit(o2, Finding("par_length", p, e, rn, r[n].n, PyLen(r[p]), NoV))
                 ELSE o2

\* if row['datacol'] == 0   (lines 142-144): the value compared is the
\* datacol string itself
CheckDatacolValue(o, r, datacol, e, rn) ==
    LET o1 == Lookup(o, r, s_datacol)
    IN  IF ~Ok(o1) THEN o1
        ELSE IF EqInt0(r[s_datacol]) THEN Emit(o1, Finding("zero", datacol, e, rn, 0, 0, NoV))
        ELSE o1

\* ['...{}'.format(x) for x in range(lo,hi+1)]; checkimpht.py:147, 159, 167, 178
NameList(Name(_), lo, hi) == [k \in 1..Len(Range(lo, hi)) |-> Name(Range(lo, hi)[k])]

\* lines 139-184
PlainChecks(o, P, r, datacol, e, rn) ==
    LET DName(x)   == DataName(datacol, x)
        BData(a, d)  == CheckDataZero(a, r, d, e, rn)
        BBlank(a, p) == CheckNameBlank(a, r, p, e, rn)
        BVal(a, p)   == CheckParValZero(a, r, p, e, rn)
        BZero(a, n)  == CheckIsZero(a, r, n, e, rn)
        o1 == CheckDatacolValue(o, r, datacol, e, rn)
        o2 == ForEach(BData, o1, NameList(DName, 1, P + 1))
        o3 == ForEach(BBlank, o2, NameList(ParNamesName, 1, P + 1))
        o4 == ForEach(BVal, o3, NameList(ParValuesName, 1, P + 1))
    IN  ForEach(BZero, o4, NameList(NelemName, 1, P + 1))

\* lines 187-277
ArrayChecks(o, P, r, datacol, e, rn) ==
    LET family == DropLast(datacol)
        np     == IntOfChar(LastChar(datacol))
        DName(x)   == DataName(family, x)
        BProd(a, n)  == CheckNelemProduct(a, r, n, e, rn)
        BZero(a, n)  == CheckIsZero(a, r, n, e, rn)
        BData(a, d)  == CheckDataZero(a, r, d, e, rn)
        BSet(a, p)   == CheckNameSet(a, r, p, e, rn)
        BBlank(a, p) == CheckNameBlank(a, r, p, e, rn)
        BLen(a, pn)  == CheckParValLen(a, r, pn, e, rn)
        BVal(a, p)   == CheckParValZero(a, r, p, e, rn)
        o1 == CheckIsZero(o, r, family, e, rn)
        o2 == ForEach(BProd, o1, NameList(NelemName, 1, np + 1))
        o3 == IF Ok(o2) THEN CheckDataLen(o2, r, datacol, e, rn) ELSE o2
        o4 == ForEach(BZero, o3, NameList(NelemName, np + 1, P + 1))
        o5 == ForEach(BData, o4, RemoveFirst(NameList(DName, 1, P + 1), datacol))
        o6 == ForEach(BSet, o5, NameList(ParNamesName, 1, np + 1))
        o7 == ForEach(BBlank, o6, NameList(ParNamesName, np + 1, P + 1))
        o8 == ForEach(BLen, o7, Zip(NameList(ParValuesName, 1, np + 1),
                                    NameList(NelemName, 1, np + 1)))
    IN  ForEach(BVal, o8, NameList(ParValuesName, np + 1, P + 1))

check_row(P, r, e, rn) ==
    LET o1 == Lookup(R0, r, s_datacol)
    IN  IF ~Ok(o1) THEN o1
        ELSE LET datacol == r[s_datacol].s
             IN  IF datacol = <<>> THEN Raise(o1, "IndexError")
                 ELSE IF IsPlainCase(P, datacol)
                      THEN PlainChecks([o1 EXCEPT !.case = "plain"], P, r, datacol, e, rn)
                      ELSE ArrayChecks([o1 EXCEPT !.case = "array"], P, r, datacol, e, rn)

----------------------------------------------------------------------------
(* check_row_len and check_obsmode                                         *)

len_should_Wrong(P) == 4 + (4 * P)

\* len_should = 5 + (4 * num_par)
len_should(P) == 5 + (4 * P)

\* len(row): the number of columns of the record
RowLen(r) == Cardinality(DOMAIN r)

check_row_len(P, r, e, rn) ==
    IF RowLen(r) # len_should(P)
    THEN Emit(R0, Finding("row_len", <<>>, e, rn, len_should(P), RowLen(r), NoV))
    ELSE R0

\* if len(obsmode) == 0
check_obsmode(obsmode, e, rn) ==
    IF Len(obsmode) = 0
    THEN Emit(R0, Finding("obsmode_empty", s_obsmode, e, rn, 0, 0, NoV))
    ELSE R0

\* what one pass of the loop body of check_rows leaves: the findings of the three
\* checks in order, and the exception of check_row
BodyResult(a, b, c) ==
    [findings |-> a.findings \o b.findings \o c.findings,
     exc      |-> c.exc,
     steps    |-> {"check_obsmode", "check_row_len", "check_row"},
     chk      |-> c]

\* row['obsmode'] could not be read
BodyFailed(o0) == [findings |-> <<>>, exc |-> o0.exc, steps |-> {}, chk |-> R0]

\* one pass of the loop body of check_rows (lines 102-104) on row r, numbered rn,
\* of extension number e: the three checks in order, an exception ending the pass
check_rows_body(P, r, e, rn) ==
    IF ~Ok(Lookup(R0, r, s_obsmode))
    THEN BodyFailed(Lookup(R0, r, s_obsmode))
    ELSE BodyResult(check_obsmode(r[s_obsmode].s, e, rn),
                    check_row_len(P, r, e, rn),
                    check_row(P, r, e, rn))

----------------------------------------------------------------------------
(* check_rows and the loop body of check_ext_data                          *)

NoRows == [findings |-> <<>>, exc |-> "none", steps |-> {}, rowsDone |-> 0, rows |-> <<>>,
           ext_num |-> 0, mism |-> <<>>]

\* the result of check_rows after one more pass b of its loop body
AddRow(acc, b, e) ==
    [findings |-> acc.findings \o b.findings,
     exc      |-> b.exc,
     steps    |-> acc.steps \cup b.steps,
     rowsDone |-> acc.rowsDone + (IF b.exc = "none" THEN 1 ELSE 0),
     rows     |-> Append(acc.rows, b),
     ext_num  |-> e,
     mism     |-> <<>>]

\* for i,row in enumerate(ext.data): rows j.. of data, an exception ending the loop
RECURSIVE CheckRowsFrom(_, _, _, _, _)
CheckRowsFrom(P, data, e, j, acc) ==
    IF j > Len(data) \/ acc.exc # "none" THEN acc
    ELSE CheckRowsFrom(P, data, e, j + 1,
                       AddRow(acc, check_rows_body(P, data[j], e, j - 1), e))

check_rows(P, data, e) == CheckRowsFrom(P, data, e, 1, NoRows)

IsSpace(c) == c = " "

\* s.strip()
RECURSIVE LStrip(_)
LStrip(s) == IF s # <<>> /\ IsSpace(Head(s)) THEN LStrip(Tail(s)) ELSE s
RECURSIVE RStrip(_)
RStrip(s) == IF s # <<>> /\ IsSpace(s[Len(s)]) THEN RStrip(DropLast(s)) ELSE s
Strip(s) == RStrip(LStrip(s))

SplitFirst_None(s) == s

\* s.split(',')[0]
RECURSIVE SplitFirst(_)
SplitFirst(s) == IF s = <<>> \/ Head(s) = "," THEN <<>> ELSE <<Head(s)>> \o SplitFirst(Tail(s))

\* s.startswith(prefix)
StartsWith(s, prefix) == Len(prefix) <= Len(s) /\ SubSeq(s, 1, Len(prefix)) = prefix

\* np.where(np.char.startswith(ext.data['obsmode'],start) != True)[0]: the
\* 0-based indices of the rows j.. whose obsmode does not start with start
RECURSIVE MismatchFrom(_, _, _)
MismatchFrom(data, start, j) ==
    IF j > Len(data) THEN <<>>
    ELSE (IF StartsWith(data[j][s_obsmode].s, start) THEN <<>> ELSE <<j - 1>>)
         \o MismatchFrom(data, start, j + 1)

\* the number check_rows is called with: i + 1, where i is the loop variable of
\* 'for i,ext in enumerate(...)' that the inner 'for i in w[0]' assigns as well
ExtNumArg(idx, mism) == (IF mism = <<>> THEN idx ELSE mism[Len(mism)]) + 1

\* the mismatch findings (lines 87-90)
PrefixFindings(data, mism) ==
    [k \in 1..Len(mism) |->
        Finding("obsmode_prefix", s_obsmode, 0, mism[k], 0, 0, data[mism[k] + 1][s_obsmode])]

ExtResult_PrefixLast(data, idx, mism, rr) ==
    [rr EXCEPT !.findings = @ \o [k \in 1..Len(mism) |->
                   Finding("obsmode_prefix", s_obsmode, 0, mism[k], 0, 0,
                           data[mism[k] + 1][s_obsmode])],
               !.steps = @ \cup {"obsmode_prefix"},
               !.ext_num = (IF mism = <<>> THEN idx ELSE mism[Len(mism)]) + 1,
               !.mism = mism]

\* what one pass of the loop body of check_ext_data leaves: the mismatch
\* findings, then the result rr of check_rows
ExtResult(data, idx, mism, rr) ==
    [rr EXCEPT !.findings = PrefixFindings(data, mism) \o @,
               !.steps = @ \cup {"obsmode_prefix"},
               !.ext_num = ExtNumArg(idx, mism),
               !.mism = mism]

\* one pass of the loop body of check_ext_data (lines 79-93) on the extension
\* data (a sequence of rows) at 0-based position idx
check_ext(P, data, idx) ==
    IF data = <<>>
    THEN \* ext.data['obsmode'][0] of an empty column
         [NoRows EXCEPT !.exc = "IndexError"]
    ELSE IF s_obsmode \notin DOMAIN data[1]
    THEN [NoRows EXCEPT !.exc = "KeyError"]
    ELSE ExtResult(data, idx,
                   MismatchFrom(data, SplitFirst(Strip(data[1][s_obsmode].s)), 1),
                   check_rows(P, data,
                       ExtNumArg(idx, MismatchFrom(data, SplitFirst(Strip(data[1][s_obsmode].s)), 1))))

----------------------------------------------------------------------------
(* The primary header                                                      *)

keys == <<"SIMPLE", "BITPIX", "NAXIS", "EXTEND", "DATE", "FILENAME", "FILETYPE",
          "NEXTEND", "PHOTZPT", "PARNUM", "DBTABLE", "INSTRUME", "DETECTOR",
          "SYNSWVER", "MKTABVER", "GRAPHTAB", "COMPTAB", "USEAFTER", "PEDIGREE",
          "DESCRIP">>

KeySet == { keys[k] : k \in 1..Len(keys) }

\* for k in keys: if not header.has_key(k): print ...
RECURSIVE HeaderKeysFrom(_, _)
HeaderKeysFrom(h, k) ==
    IF k > Len(keys) THEN <<>>
    ELSE (IF keys[k] \notin h.keys THEN <<HeaderFinding("no_key", keys[k], 0, 0)>> ELSE <<>>)
         \o HeaderKeysFrom(h, k + 1)

\* a loop that ends at the first key it misses
check_header_keys_StopAtFirst(h) ==
    IF HeaderKeysFrom(h, 1) = <<>> THEN <<>> ELSE <<Head(HeaderKeysFrom(h, 1))>>

check_header_keys(h) == HeaderKeysFrom(h, 1)

\* header['nextend'], header['parnum']: the lookup ignores case
HeaderHas(h, k) == k \in h.keys

read_header_exc_OnlyNextend(h) == IF ~HeaderHas(h, "NEXTEND") THEN "KeyError" ELSE "none"

\* read_header: the exception it ends with
read_header_exc(h) ==
    IF ~HeaderHas(h, "NEXTEND") THEN "KeyError"
    ELSE IF ~HeaderHas(h, "PARNUM") THEN "KeyError"
    ELSE "none"

\* check_header_vals
check_header_vals(n_ext, n) ==
    IF n_ext # n THEN <<HeaderFinding("nextend", "NEXTEND", n, n_ext)>> ELSE <<>>

----------------------------------------------------------------------------
(* Rows the checks are run on: rows that satisfy the invariants of their   *)
(* case, changed in at most two places (a column's value replaced, a       *)
(* column dropped, a column added).                                        *)

s_PHOTFLAM == <<"P", "H", "O", "T", "F", "L", "A", "M">>
s_PEDIGREE == <<"P", "E", "D", "I", "G", "R", "E", "E">>
s_DESCRIP  == <<"D", "E", "S", "C", "R", "I", "P">>
s_EXTRA    == <<"E", "X", "T", "R", "A">>

Ones(n) == [k \in 1..n |-> 1]

RECURSIVE Product(_)
Product(s) == IF s = <<>> THEN 1 ELSE Head(s) * Product(Tail(s))

\* family names: plain, and ending in a digit below, inside and above 1..P
Families(P) == {s_PHOTFLAM, s_PHOTFLAM \o <<"0">>, s_PHOTFLAM \o <<"1">>,
                s_PHOTFLAM \o Str(P + 1)}

SlotCols(fam, np, nel, i) ==
    (DataName(fam, i) :> (IF i = np THEN ArrV(Ones(Product(nel))) ELSE ArrV(<<0>>)))
    @@ (ParNamesName(i) :> (IF i <= np THEN StrV(<<"W">>) ELSE StrV(<<>>)))
    @@ (ParValuesName(i) :> (IF i <= np THEN ArrV(Ones(nel[i])) ELSE ArrV(<<0>>)))
    @@ (NelemName(i) :> (IF i <= np THEN IntV(nel[i]) ELSE IntV(0)))

RECURSIVE AllSlotCols(_, _, _, _)
AllSlotCols(fam, np, nel, i) ==
    IF i = 0 THEN <<>> ELSE SlotCols(fam, np, nel, i) @@ AllSlotCols(fam, np, nel, i - 1)

\* a row of a table with P slots that meets every clause of its case:
\* np = 0 is the plain case, np in 1..P the array case with NELEM1..NELEMnp = nel
ValidRow(P, fam, np, nel) ==
    (s_obsmode :> StrV(<<"a", ",", "b">>))
    @@ (s_datacol :> StrV(IF np = 0 THEN fam ELSE DataName(fam, np)))
    @@ (fam :> IntV(IF np = 0 THEN 1 ELSE 0))
    @@ (s_PEDIGREE :> StrV(<<"x">>))
    @@ (s_DESCRIP :> StrV(<<"y">>))
    @@ AllSlotCols(fam, np, nel, P)

\* NELEM1..NELEMnp of the valid rows: every choice in tables of up to MaxPar
\* slots, all 1 in wider ones (up to MaxParWide slots)
NelChoices(P, np) == IF P <= MaxPar THEN [1..np -> 1..MaxNelem] ELSE {Ones(np)}

\* a change of one column: a new value, or NoV for dropping the column
Change(col, val) == [col |-> col, val |-> val]

Apply(r, ch) ==
    IF ch.val.kind = "none" THEN [c \in (DOMAIN r) \ {ch.col} |-> r[c]]
    ELSE IF ch.col \in DOMAIN r THEN [r EXCEPT ![ch.col] = ch.val]
    ELSE r @@ (ch.col :> ch.val)

DataAlts   == {ArrV(<<0>>), ArrV(<<1>>), ArrV(<<>>), IntV(0)}
ValuesAlts == {ArrV(<<0>>), ArrV(<<1>>), ArrV(<<1, 1>>), IntV(0)}
NamesAlts  == {StrV(<<>>), StrV(<<"W">>)}
NelemAlts  == {IntV(k) : k \in 0..(MaxNelem + 1)}
BareAlts   == {IntV(0), IntV(1)}

Changes(P, fam) ==
    { Change(fam, v) : v \in BareAlts }
    \cup { Change(s_obsmode, v) : v \in {StrV(<<>>), NoV} }
    \cup { Change(c, NoV) : c \in {fam, s_datacol, s_PEDIGREE} }
    \cup { Change(s_EXTRA, StrV(<<"z">>)) }
    \cup UNION { { Change(DataName(fam, i), v) : v \in DataAlts \cup {NoV} }
                 \cup { Change(ParNamesName(i), v) : v \in NamesAlts \cup {NoV} }
                 \cup { Change(ParValuesName(i), v) : v \in ValuesAlts \cup {NoV} }
                 \cup { Change(NelemName(i), v) : v \in NelemAlts \cup {NoV} }
                 : i \in 1..P }

\* rows of the family PHOTFLAM in tables of up to MaxPar slots are changed in
\* two places, the other rows in one
SecondChanges(P, fam, c1) ==
    IF P <= MaxPar /\ fam = s_PHOTFLAM THEN Changes(P, fam) ELSE {c1}

----------------------------------------------------------------------------
(* Specification of the row checks: a row is drawn, the loop body of       *)
(* check_rows runs on it.                                                  *)

NoRes == [findings |-> <<>>, exc |-> "none", steps |-> {}, chk |-> R0]

RowInit ==
    /\ pc = "row"
    /\ num_par \in 1..MaxParWide
    /\ \E fam \in Families(num_par), np \in 0..num_par :
         \E nel \in NelChoices(num_par, np), c1 \in Changes(num_par, fam) :
            \E c2 \in SecondChanges(num_par, fam, c1), b \in {ValidRow(num_par, fam, np, nel)} :
               row = Apply(Apply(b, c1), c2)
    /\ res = NoRes
    /\ comp = NoComp
    /\ header = [keys |-> {}, nextend |-> 0, parnum |-> 0]
    /\ numExt = 0 /\ num_ext = 0 /\ extPos = 0 /\ ext = <<>>
    /\ out = <<>> /\ exc = "none" /\ ran = {}

RowCheck ==
    /\ pc = "row"
    /\ res' = check_rows_body(num_par, row, 1, 0)
    /\ out' = res'.findings
    /\ exc' = res'.exc
    /\ ran' = res'.steps
    /\ pc' = IF res'.exc = "none" THEN "row_done" ELSE "crashed"
    /\ UNCHANGED <<header, numExt, num_ext, num_par, extPos, ext, row, comp>>

RowNext == RowCheck

RowSpec == RowInit /\ [][RowNext]_vars

----------------------------------------------------------------------------
(* Specification of check_header_keys alone: a header is drawn, the check  *)
(* runs on it.                                                             *)

Headers(absentSets) ==
    { [keys |-> KeySet \ a, nextend |-> n, parnum |-> P] :
        a \in absentSets, n \in 0..MaxExt, P \in 1..MaxPar }

AbsentUpTo(n) == { a \in SUBSET KeySet : Cardinality(a) <= n }

KeysInit ==
    /\ pc = "start"
    /\ header \in { h \in Headers(AbsentUpTo(MaxAbsent)) : h.nextend = 0 /\ h.parnum = 1 }
    /\ numExt = 0 /\ num_ext = -1 /\ num_par = -1 /\ extPos = 0 /\ ext = <<>>
    /\ row = <<>> /\ out = <<>> /\ exc = "none" /\ ran = {} /\ res = NoRes
    /\ comp = NoComp

\* self.check_header_keys()
CheckHeaderKeys ==
    /\ pc = "start"
    /\ out' = check_header_keys(header)
    /\ exc' = "none"
    /\ ran' = ran \cup {"check_header_keys"}
    /\ pc' = "keys_checked"
    /\ UNCHANGED <<header, numExt, num_ext, num_par, extPos, ext, row, res, comp>>

KeysNext == CheckHeaderKeys

KeysSpec == KeysInit /\ [][KeysNext]_vars

----------------------------------------------------------------------------
(* Specification of the program: checker = CheckImpht(fits);               *)
(* checker.run_checks(); fits.close().  The file is a read-only snapshot;  *)
(* the data of an extension is drawn when check_ext_data reaches it.       *)

AllTwos(n) == [k \in 1..n |-> 2]

\* a valid row with another obsmode
WithObsmode(r, o) == Apply(r, Change(s_obsmode, StrV(o)))

\* sample rows: two valid ones (obsmode 'a,b' and 'a'), one with a finding, one
\* with a nonzero inactive data column (obsmode 'a,b'), and plain rows whose obsmode has
\* another leading token, is empty (a row with a column too many and a
\* parameter name set), starts with a blank, is a blank
SampleRows(P) ==
    << ValidRow(P, s_PHOTFLAM, 0, <<>>),
       WithObsmode(ValidRow(P, s_PHOTFLAM, P, AllTwos(P)), <<"a">>),
       Apply(ValidRow(P, s_PHOTFLAM, P, AllTwos(P)), Change(NelemName(1), IntV(1))),
       Apply(ValidRow(P, s_PHOTFLAM, 0, <<>>), Change(DataName(s_PHOTFLAM, 1), ArrV(<<1>>))),
       WithObsmode(ValidRow(P, s_PHOTFLAM, 0, <<>>), <<"b">>),
       WithObsmode(Apply(Apply(ValidRow(P, s_PHOTFLAM, 0, <<>>),
                               Change(ParNamesName(1), StrV(<<"W">>))),
                         Change(s_EXTRA, StrV(<<"z">>))), <<>>),
       WithObsmode(ValidRow(P, s_PHOTFLAM, 0, <<>>), <<" ", "a">>),
       WithObsmode(ValidRow(P, s_PHOTFLAM, 0, <<>>), <<" ">>) >>

\* sample row c of a table that has every column (lacks = FALSE) or that lacks
\* the last NELEM column
SampleRow(P, c, lacks) ==
    IF lacks THEN Apply(SampleRows(P)[c], Change(NelemName(P), NoV)) ELSE SampleRows(P)[c]

\* a table of n rows: the rows of one table have the same columns
Table(P, n, cs, lacks) == [j \in 1..n |-> SampleRow(P, cs[j], lacks)]

Init ==
    /\ pc = "start"
    /\ numExt \in 0..MaxExt
    /\ header \in { h \in Headers(SUBSET {"NEXTEND", "PARNUM"}) : h.nextend \in {0, numExt} }
    /\ num_ext = -1 /\ num_par = -1 /\ extPos = 0 /\ ext = <<>>
    /\ row = <<>> /\ out = <<>> /\ exc = "none" /\ ran = {} /\ res = NoRes
    /\ comp = NoComp

\* self.read_header()
ReadHeader ==
    /\ pc = "keys_checked"
    /\ exc' = read_header_exc(header)
    /\ ran' = ran \cup {"read_header"}
    /\ out' = <<>>
    /\ IF exc' = "none"
       THEN /\ num_ext' = header.nextend
            /\ num_par' = header.parnum
            /\ pc' = "constructed"
       ELSE /\ UNCHANGED <<num_ext, num_par>>
            /\ pc' = "crashed"
    /\ UNCHANGED <<header, numExt, extPos, ext, row, res, comp>>

\* run_checks: self.check_header_vals()
CheckHeaderVals ==
    /\ pc = "constructed"
    /\ out' = check_header_vals(num_ext, numExt)
    /\ exc' = "none"
    /\ ran' = ran \cup {"check_header_vals"}
    /\ pc' = "ext_loop"
    /\ UNCHANGED <<header, numExt, num_ext, num_par, extPos, ext, row, res, comp>>

\* where the program is after one pass of the loop of check_ext_data: nothing
\* in check_rows, check_ext_data, run_checks or the script catches an exception
AfterExt_Swallow(e) == "ext_done"

AfterExt(e) == IF e = "none" THEN "ext_done" ELSE "crashed"

\* run_checks: self.check_ext_data(), one pass of its loop
CheckExt ==
    /\ pc = "ext_loop"
    /\ extPos < numExt
    /\ \E n \in 0..MaxRows, lacks \in BOOLEAN :
         \E cs \in [1..n -> 1..Len(SampleRows(num_par))] :
            /\ ext' = Table(num_par, n, cs, lacks)
            /\ res' = check_ext(num_par, ext', extPos)
    /\ out' = res'.findings
    /\ exc' = res'.exc
    /\ ran' = ran \cup {"check_ext_data"} \cup res'.steps
    /\ extPos' = extPos + 1
    /\ pc' = AfterExt(res'.exc)
    /\ UNCHANGED <<header, numExt, num_ext, num_par, row, comp>>

\* the for statement of check_ext_data takes the next extension
LoopNext ==
    /\ pc = "ext_done"
    /\ pc' = "ext_loop"
    /\ ext' = <<>> /\ out' = <<>> /\ res' = NoRes
    /\ UNCHANGED <<header, numExt, num_ext, num_par, extPos, row, exc, ran, comp>>

\* check_ext_data returns; fits.close()
RunDone ==
    /\ pc = "ext_loop"
    /\ extPos = numExt
    /\ pc' = "done"
    /\ UNCHANGED <<header, numExt, num_ext, num_par, extPos, ext, row, out, exc, ran, res, comp>>

Next == CheckHeaderKeys \/ ReadHeader \/ CheckHeaderVals \/ CheckExt \/ LoopNext \/ RunDone

Spec == Init /\ [][Next]_vars

----------------------------------------------------------------------------
(* compfits.py.  A FITS file is a sequence of HDUs; an HDU is a record of  *)
(* its class, its name, what .size() and .filebytes() return, its header   *)
(* (a function from keys to values) and its data ([isarray, shape, vals]). *)

IGNORE_HEADER_VALUES == {"IRAF-TLM", "DATE"}

\* the result of a comparison method: the value returned, or the exception
\* raised and its message
Returns(v)      == [ret |-> v, exc |-> "none", msg |-> ""]
Raises(e, msg)  == [ret |-> FALSE, exc |-> e, msg |-> msg]

\* [f(x) for x in fits]
Names(fits)     == [k \in 1..Len(fits) |-> fits[k].name]
Sizes(fits)     == [k \in 1..Len(fits) |-> fits[k].size]
FileBytes(fits) == [k \in 1..Len(fits) |-> fits[k].filebytes]

compare_length(fits1, fits2) ==
    IF Len(fits1) = Len(fits2) THEN Returns(TRUE)
    ELSE IF Len(fits1) > Len(fits2)
         THEN Raises("FitsLengthError", "Fits1 has more extensions than Fits2.")
    ELSE IF Len(fits1) < Len(fits2)
         THEN Raises("FitsLengthError", "Fits2 has more extensions than Fits1.")
    ELSE Returns(FALSE)

compare_names(fits1, fits2) ==
    IF Names(fits1) = Names(fits2) THEN Returns(TRUE)
    ELSE Raises("FitsExtensionNamesError", "names")

compare_size_FallThrough(fits1, fits2) ==
    IF Sizes(fits1) = Sizes(fits2) /\ FileBytes(fits1) = FileBytes(fits2)
    THEN Returns(TRUE)
    ELSE IF Sizes(fits1) # Sizes(fits2) /\ FileBytes(fits1) # FileBytes(fits2)
         THEN Raises("FitsSizeError", "size or filebytes")
    ELSE IF Sizes(fits1) # Sizes(fits2) /\ FileBytes(fits1) = FileBytes(fits2)
         THEN Raises("FitsSizeError", "size")
    ELSE Returns(FALSE)

\* the if/elif chain of lines 208-229; same_size stays False when no branch
\* is taken.  The third branch, taken when the sizes agree and the filebytes
\* do not, raises with the message about .size(), the fourth with the one
\* about .filebytes()
compare_size(fits1, fits2) ==
    IF Sizes(fits1) = Sizes(fits2) /\ FileBytes(fits1) = FileBytes(fits2)
    THEN Returns(TRUE)
    ELSE IF Sizes(fits1) # Sizes(fits2) /\ FileBytes(fits1) # FileBytes(fits2)
         THEN Raises("FitsSizeError", "size or filebytes")
    ELSE IF Sizes(fits1) = Sizes(fits2)
         THEN Raises("FitsSizeError", "size")
    ELSE IF FileBytes(fits1) = FileBytes(fits2)
         THEN Raises("FitsSizeError", "filebytes")
    ELSE Returns(FALSE)

\* fits[ext_num]: ext_num is 0-based
HduAt(fits, ext_num) == fits[ext_num + 1]

compare_header_keys(fits1, fits2, ext_num) ==
    IF ext_num >= Len(fits2) THEN Raises("IndexError", "")
    ELSE IF DOMAIN HduAt(fits1, ext_num).header = DOMAIN HduAt(fits2, ext_num).header
         THEN Returns(TRUE)
    ELSE Raises("FitsHeaderKeyError", "keys")

\* the keys of header1 whose values differ and that are not ignored
DiffKeys(header1, header2) ==
    { key \in DOMAIN header1 :
        header1[key] # header2[key] /\ key \notin IGNORE_HEADER_VALUES }

compare_header_values(fits1, fits2, ext_num) ==
    IF ext_num >= Len(fits2) THEN Raises("IndexError", "")
    ELSE IF ~(DOMAIN HduAt(fits1, ext_num).header \subseteq DOMAIN HduAt(fits2, ext_num).header)
         THEN Raises("KeyError", "")
    ELSE IF DiffKeys(HduAt(fits1, ext_num).header, HduAt(fits2, ext_num).header) = {}
         THEN Returns(TRUE)
    ELSE Raises("FitsHeaderValueError", "values")

\* (keys is True) and (values is True): values is not called when keys did
\* not return True
compare_header_num(fits1, fits2, ext_num) ==
    IF compare_header_keys(fits1, fits2, ext_num).exc # "none"
    THEN compare_header_keys(fits1, fits2, ext_num)
    ELSE IF compare_header_keys(fits1, fits2, ext_num).ret # TRUE THEN Returns(FALSE)
    ELSE IF compare_header_values(fits1, fits2, ext_num).exc # "none"
         THEN compare_header_values(fits1, fits2, ext_num)
    ELSE Returns(compare_header_values(fits1, fits2, ext_num).ret = TRUE)

\* for i in range(len(self.fits1)), from i on
RECURSIVE AllHeadersFrom(_, _, _)
AllHeadersFrom(fits1, fits2, i) ==
    IF i >= Len(fits1) THEN Returns(TRUE)
    ELSE IF compare_header_num(fits1, fits2, i).exc # "none"
         THEN compare_header_num(fits1, fits2, i)
    ELSE IF compare_header_num(fits1, fits2, i).ret # TRUE THEN Returns(FALSE)
    ELSE AllHeadersFrom(fits1, fits2, i + 1)

compare_all_headers(fits1, fits2) == AllHeadersFrom(fits1, fits2, 0)

\* (data1 == data2).all() of arrays of one shape
AllEqual(vals1, vals2) == \A k \in 1..Len(vals1) : vals1[k] = vals2[k]

compare_data_array(fits1, fits2, ext_num) ==
    IF HduAt(fits1, ext_num).data.shape # HduAt(fits2, ext_num).data.shape
    THEN Raises("FitsDataError", "shapes")
    ELSE IF AllEqual(HduAt(fits1, ext_num).data.vals, HduAt(fits2, ext_num).data.vals)
         THEN Returns(TRUE)
    ELSE Raises("FitsDataError", "not equal")

\* both HDUs are ImageHDUs and both data are arrays
HasDataArrays(fits1, fits2, i) ==
    /\ HduAt(fits1, i).class = "ImageHDU" /\ HduAt(fits2, i).class = "ImageHDU"
    /\ HduAt(fits1, i).data.isarray /\ HduAt(fits2, i).data.isarray

RECURSIVE DataFrom(_, _, _)
DataFrom(fits1, fits2, i) ==
    IF i >= Len(fits1) THEN Returns(TRUE)
    ELSE IF i >= Len(fits2) THEN Raises("IndexError", "")
    ELSE IF ~HasDataArrays(fits1, fits2, i) THEN DataFrom(fits1, fits2, i + 1)
    ELSE IF compare_data_array(fits1, fits2, i).exc # "none"
         THEN compare_data_array(fits1, fits2, i)
    ELSE IF compare_data_array(fits1, fits2, i).ret # TRUE THEN Returns(FALSE)
    ELSE DataFrom(fits1, fits2, i + 1)

compare_data(fits1, fits2) == DataFrom(fits1, fits2, 0)

\* bool(np.bool_([...]).all())
AllOf(flags) == \A k \in 1..Len(flags) : flags[k]

----------------------------------------------------------------------------
(* Files the comparison is run on: a file of 1..MaxHdu HDUs (a primary HDU *)
(* and image extensions) against the same file changed in at most two      *)
(* places.                                                                 *)

NoData == [isarray |-> FALSE, shape |-> <<>>, vals |-> <<>>]
Array(vals) == [isarray |-> TRUE, shape |-> <<Len(vals)>>, vals |-> vals]

BaseHdu(i) ==
    [class     |-> IF i = 1 THEN "PrimaryHDU" ELSE "ImageHDU",
     name      |-> IF i = 1 THEN "PRIMARY" ELSE "SCI",
     size      |-> 2,
     filebytes |-> 4,
     header    |-> [k \in {"NAXIS", "DATE", "EXPTIME"} |-> 1],
     data      |-> Array(<<1, 1>>)]

BaseFile(n) == [i \in 1..n |-> BaseHdu(i)]

HduChanges == {"name", "size", "filebytes", "key", "date", "value", "shape", "data",
               "nodata", "class"}

ChangeHdu(h, what) ==
    CASE what = "name"      -> [h EXCEPT !.name = "ERR"]
      [] what = "size"      -> [h EXCEPT !.size = @ + 1]
      [] what = "filebytes" -> [h EXCEPT !.filebytes = @ + 1]
      [] what = "key"       -> [h EXCEPT !.header = [k \in (DOMAIN @) \cup {"EXTRA"} |->
                                                       IF k \in DOMAIN @ THEN @[k] ELSE 1]]
      [] what = "date"      -> [h EXCEPT !.header["DATE"] = @ + 1]
      [] what = "value"     -> [h EXCEPT !.header["EXPTIME"] = @ + 1]
      [] what = "shape"     -> [h EXCEPT !.data = Array(<<1>>)]
      [] what = "data"      -> [h EXCEPT !.data = Array(<<1, 2>>)]
      [] what = "nodata"    -> [h EXCEPT !.data = NoData]
      [] what = "class"     -> [h EXCEPT !.class = "BinTableHDU"]

FitsChanges(n) ==
    { [at |-> 0, what |-> w] : w \in {"same", "append", "drop"} }
    \cup { [at |-> i, what |-> w] : i \in 1..n, w \in HduChanges }

ApplyFits(f, ch) ==
    CASE ch.what = "same"   -> f
      [] ch.what = "append" -> Append(f, BaseHdu(Len(f) + 1))
      [] ch.what = "drop"   -> IF Len(f) > 1 THEN SubSeq(f, 1, Len(f) - 1) ELSE f
      [] OTHER -> IF ch.at <= Len(f) THEN [f EXCEPT ![ch.at] = ChangeHdu(@, ch.what)] ELSE f

----------------------------------------------------------------------------
(* Specification of comp_fits: comp = CompareFits(fits1,fits2), then       *)
(* comp.run_all_comps() one comparison at a time, then the report.         *)

FitsErrors == {"FitsLengthError", "FitsExtensionNamesError", "FitsSizeError",
               "FitsHeaderKeyError", "FitsHeaderValueError", "FitsDataError"}

PassedMsg == "All sameness tests passed for files: "
FailedMsg == "Some tests failed but did not raise exceptions,"

CompInit ==
    /\ pc = "c_length"
    /\ \E n \in 1..MaxHdu :
         \E c1 \in FitsChanges(n), c2 \in FitsChanges(n) :
            comp = [made |-> TRUE,
                    fits1 |-> BaseFile(n),
                    fits2 |-> ApplyFits(ApplyFits(BaseFile(n), c1), c2),
                    calls |-> <<>>, same |-> <<>>,
                    closed |-> FALSE, returned |-> FALSE, same_fits |-> FALSE]
    /\ header = [keys |-> {}, nextend |-> 0, parnum |-> 0]
    /\ numExt = 0 /\ num_ext = 0 /\ num_par = 0 /\ extPos = 0 /\ ext = <<>>
    /\ row = <<>> /\ out = <<>> /\ exc = "none" /\ ran = {} /\ res = NoRes

\* one comparison of run_all_comps: its result r is kept when it returns; when
\* it raises, run_all_comps is left and comp_fits prints the message of a
\* FitsError and raises it again
CompStep(name, r, next) ==
    /\ comp' = [comp EXCEPT !.calls = Append(@, name),
                            !.same = IF r.exc = "none" THEN Append(@, r.ret) ELSE @]
    /\ exc' = r.exc
    /\ out' = IF r.exc \in FitsErrors THEN <<r.msg>> ELSE <<>>
    /\ pc' = IF r.exc = "none" THEN next ELSE "c_raised"
    /\ UNCHANGED <<header, numExt, num_ext, num_par, extPos, ext, row, ran, res>>

CompareLength ==
    pc = "c_length" /\ CompStep("length", compare_length(comp.fits1, comp.fits2), "c_names")

CompareNames ==
    pc = "c_names" /\ CompStep("names", compare_names(comp.fits1, comp.fits2), "c_size")

CompareSize ==
    pc = "c_size" /\ CompStep("size", compare_size(comp.fits1, comp.fits2), "c_headers")

CompareAllHeaders ==
    pc = "c_headers"
    /\ CompStep("headers", compare_all_headers(comp.fits1, comp.fits2), "c_data")

CompareData ==
    pc = "c_data" /\ CompStep("data", compare_data(comp.fits1, comp.fits2), "c_close")

\* self.close_fits(); same_fits = bool(np.bool_([...]).all()); return same_fits
RunAllCompsReturn ==
    /\ pc = "c_close"
    /\ comp' = [comp EXCEPT !.closed = TRUE, !.returned = TRUE, !.same_fits = AllOf(comp.same)]
    /\ pc' = "c_report"
    /\ UNCHANGED <<header, numExt, num_ext, num_par, extPos, ext, row, out, exc, ran, res>>

\* the else clause of the try statement of comp_fits
CompReport ==
    /\ pc = "c_report"
    /\ out' = IF comp.same_fits = TRUE THEN <<PassedMsg>> ELSE <<FailedMsg>>
    /\ pc' = "c_done"
    /\ UNCHANGED <<header, numExt, num_ext, num_par, extPos, ext, row, exc, ran, res, comp>>

CompNext ==
    \/ CompareLength \/ CompareNames \/ CompareSize \/ CompareAllHeaders \/ CompareData
    \/ RunAllCompsReturn \/ CompReport

CompSpec == CompInit /\ [][CompNext]_vars

----------------------------------------------------------------------------
(* Vocabulary of the properties                                            *)

\* check_row was called on the drawn row and has ended
RowChecked == pc \in {"row_done", "crashed"} /\ "check_row" \in res.steps

\* the row has a datacol column; its value
HasDatacol == s_datacol \in DOMAIN row
Datacol    == row[s_datacol].s

\* dc ends in a decimal digit whose value lies in 1..P
EndsInIndex(P, dc) == \E d \in 1..P : d <= 9 /\ dc[Len(dc)] = DigitChars[d + 1]

\* the value of the last character, a decimal digit, and the rest of the string
SlotOf(dc)     == CHOOSE d \in 0..9 : dc[Len(dc)] = DigitChars[d + 1]
FamilyPart(dc) == [k \in 1..(Len(dc) - 1) |-> dc[k]]

SlotNames(P) == UNION { {ParNamesName(i), ParValuesName(i), NelemName(i)} : i \in 1..P }
DataNames(P, fam) == { DataName(fam, i) : i \in 1..P }

\* the columns the invariant set of each case speaks of
PlainColumns(P, dc) == {dc} \cup DataNames(P, dc) \cup SlotNames(P)
ArrayColumns(P, dc) == {FamilyPart(dc)} \cup DataNames(P, FamilyPart(dc)) \cup SlotNames(P)

IsZeroArray(v) == v.kind = "arr" /\ v.a = <<0>>
IsNonzero(v)   == v.kind = "int" /\ v.n # 0

\* the plain-case clauses on the parameter slots
PlainSlotsClean(P, r, dc) ==
    \A i \in 1..P :
        /\ IsZeroArray(r[DataName(dc, i)])
        /\ r[ParNamesName(i)] = StrV(<<>>)
        /\ IsZeroArray(r[ParValuesName(i)])
        /\ r[NelemName(i)] = IntV(0)

PlainInvariant(P, r, dc) == IsNonzero(r[dc]) /\ PlainSlotsClean(P, r, dc)

\* the array-case clauses other than the one on the bare family scalar
ArraySlotsRight(P, r, dc) ==
    LET fam == FamilyPart(dc)
        np  == SlotOf(dc)
    IN  /\ r[dc].kind = "arr"
        /\ Product([i \in 1..np |-> r[NelemName(i)].n]) = Len(r[dc].a)
        /\ \A i \in 1..P :
              /\ r[NelemName(i)].kind = "int"
              /\ (i <= np) => r[NelemName(i)].n # 0
              /\ (i > np) => r[NelemName(i)].n = 0
              /\ r[ParNamesName(i)].kind = "str"
              /\ (i <= np) => r[ParNamesName(i)].s # <<>>
              /\ (i > np) => r[ParNamesName(i)].s = <<>>
              /\ (i <= np) => (r[ParValuesName(i)].kind = "arr"
                               /\ Len(r[ParValuesName(i)].a) = r[NelemName(i)].n)
              /\ (i > np) => IsZeroArray(r[ParValuesName(i)])
              /\ (i # np) => IsZeroArray(r[DataName(fam, i)])

ArrayInvariant(P, r, dc) == r[FamilyPart(dc)] = IntV(0) /\ ArraySlotsRight(P, r, dc)

\* check_row returned and printed nothing
Accepts(o) == o.exc = "none" /\ o.findings = <<>>

PlainCase == RowChecked /\ HasDatacol /\ ~EndsInIndex(num_par, Datacol)
                /\ PlainColumns(num_par, Datacol) \subseteq DOMAIN row
ArrayCase == RowChecked /\ HasDatacol /\ EndsInIndex(num_par, Datacol)
                /\ ArrayColumns(num_par, Datacol) \subseteq DOMAIN row

\* the data columns and the PARiVALUES columns of the row hold arrays
ArraysAreArrays ==
    LET fam == IF EndsInIndex(num_par, Datacol) THEN FamilyPart(Datacol) ELSE Datacol
    IN  \A i \in 1..num_par :
            row[DataName(fam, i)].kind = "arr" /\ row[ParValuesName(i)].kind = "arr"

----------------------------------------------------------------------------
(* Properties of check_row and check_row_len (specification RowSpec)       *)

\* C1: a plain-case row whose addressed columns exist is accepted exactly when
\* the bare scalar named by datacol is nonzero, every <datacol>i is [0], every
\* PARiNAMES is empty, every PARiVALUES is [0] and every NELEMi is 0.
C1_PlainAcceptIff ==
    PlainCase => (Accepts(res.chk) <=> PlainInvariant(num_par, row, Datacol))

\* what the code does decide in the plain case: the slot clauses alone
C1_PlainAcceptIffSlots ==
    PlainCase => (Accepts(res.chk) <=> PlainSlotsClean(num_par, row, Datacol))

\* C2 (as stated): an array-case row whose addressed columns exist is accepted
\* exactly when the clauses on NELEM, PARiNAMES, PARiVALUES and the inactive
\* data columns hold.
C2_ArrayAcceptIff_AsStated ==
    ArrayCase => (Accepts(res.chk) <=> ArraySlotsRight(num_par, row, Datacol))

\* C2 (amended): an array-case row whose addressed columns exist makes check_row
\* return with no finding exactly when the bare family scalar is 0 and the
\* clauses on NELEM, PARiNAMES, PARiVALUES and the inactive data columns hold.
C2_ArrayAcceptIff ==
    ArrayCase => (Accepts(res.chk) <=> ArrayInvariant(num_par, row, Datacol))

C2_Witness ==
    /\ ArrayCase /\ num_par = 2 /\ SlotOf(Datacol) = 1
    /\ ArrayInvariant(num_par, row, Datacol) /\ Accepts(res.chk)

\* the row of the scenario: P = 2, datacol PHOTFLAM2, PHOTFLAM2 of length 4,
\* NELEM1 = 2, NELEM2 = 3, PAR1VALUES and PAR2VALUES of length 2
C3_Row == Apply(ValidRow(2, s_PHOTFLAM, 2, <<2, 2>>), Change(NelemName(2), IntV(3)))

C3_LengthFinding == Finding("length", DataName(s_PHOTFLAM, 2), 1, 0, 6, 4, NoV)
C3_ParLengthFinding == Finding("par_length", ParValuesName(2), 1, 0, 3, 2, NoV)

\* C3 (as stated): on the scenario row check_row prints the product-mismatch
\* finding for PHOTFLAM2 (expected 6, actual 4) and nothing else.
C3_OneFinding_AsStated ==
    (RowChecked /\ num_par = 2 /\ row = C3_Row) =>
        (res.chk.exc = "none" /\ res.chk.findings = <<C3_LengthFinding>>)

\* C3 (amended): on the scenario row check_row prints two findings, the
\* product mismatch for PHOTFLAM2 (expected 6, actual 4) and then the length
\* of PAR2VALUES (2) against NELEM2 (3), and nothing else.
C3_TwoFindings ==
    (RowChecked /\ num_par = 2 /\ row = C3_Row) =>
        (res.chk.exc = "none"
         /\ res.chk.findings = <<C3_LengthFinding, C3_ParLengthFinding>>)

C3_Witness == pc = "row_done" /\ num_par = 2 /\ row = C3_Row

\* C4: a row that meets every clause of its case (plain, or array with any
\* active slot 1..P and the bare family scalar 0) makes check_row return
\* with no finding.
C4_ValidAccepted ==
    ((PlainCase /\ PlainInvariant(num_par, row, Datacol))
     \/ (ArrayCase /\ ArrayInvariant(num_par, row, Datacol)))
    => Accepts(res.chk)

C4_Witness ==
    /\ ArrayCase /\ num_par = 9 /\ SlotOf(Datacol) = 9
    /\ ArrayInvariant(num_par, row, Datacol) /\ Accepts(res.chk)

\* C5: on a row whose addressed columns exist and whose array columns hold
\* arrays, check_row returns however many clauses are violated.
C5_NoAbort ==
    ((PlainCase \/ ArrayCase) /\ ArraysAreArrays) => res.chk.exc = "none"

\* C9: check_row takes the array case exactly when datacol ends in a digit
\* whose value lies in 1..P, and then looks up the columns of the family
\* datacol[:-1]; otherwise it takes the plain case and looks up <datacol>1..P.
C9_Classification ==
    (RowChecked /\ HasDatacol) =>
        LET dc   == Datacol
            arr  == EndsInIndex(num_par, dc)
            cols == IF arr THEN {s_datacol} \cup ArrayColumns(num_par, dc)
                    ELSE {s_datacol} \cup DataNames(num_par, dc) \cup SlotNames(num_par)
        IN  /\ res.chk.case = (IF arr THEN "array" ELSE "plain")
            /\ res.chk.reads \subseteq cols
            /\ res.chk.exc = "none" => res.chk.reads = cols

C9_Witness ==
    /\ RowChecked /\ HasDatacol /\ num_par = 10 /\ res.chk.exc = "none"
    /\ res.chk.case = "array" /\ SlotOf(Datacol) = 9

RowLenFindings == { k \in 1..Len(res.findings) : res.findings[k].kind = "row_len" }

\* C10: check_row_len prints a shape finding exactly when the row's column
\* count differs from 5 + 4P.
C10_RowLen ==
    (pc # "row" /\ "check_row_len" \in res.steps) =>
        IF RowLen(row) = 5 + 4 * num_par
        THEN RowLenFindings = {}
        ELSE /\ Cardinality(RowLenFindings) = 1
             /\ \A k \in RowLenFindings :
                    /\ res.findings[k].exp = 5 + 4 * num_par
                    /\ res.findings[k].act = RowLen(row)

C10_Witness ==
    /\ pc # "row" /\ "check_row_len" \in res.steps
    /\ RowLen(row) = 5 + 4 * num_par + 1 /\ RowLenFindings # {}

\* an array-case row with the bare family column, NELEM1..NELEMnp and an
\* array in the active data column: check_row gets past the product check
ProductChecked ==
    /\ RowChecked /\ HasDatacol /\ EndsInIndex(num_par, Datacol)
    /\ {FamilyPart(Datacol), Datacol} \subseteq DOMAIN row
    /\ \A i \in 1..SlotOf(Datacol) : NelemName(i) \in DOMAIN row
    /\ row[Datacol].kind = "arr"

ZeroFindings(i) ==
    { k \in 1..Len(res.chk.findings) :
        res.chk.findings[k].kind = "zero" /\ res.chk.findings[k].col = NelemName(i) }

LengthFindings == { k \in 1..Len(res.chk.findings) : res.chk.findings[k].kind = "length" }

NelemProduct == Product([i \in 1..SlotOf(Datacol) |-> row[NelemName(i)].n])

\* C13: in the array case with active slot np, check_row prints one 'is zero'
\* finding for each i in 1..np with NELEMi = 0 and, separately, one length
\* finding exactly when the product of NELEM1..NELEMnp differs from the length
\* of the active data array.
C13_ZeroAndProduct ==
    ProductChecked =>
        /\ \A i \in 1..SlotOf(Datacol) :
              Cardinality(ZeroFindings(i)) = (IF row[NelemName(i)].n = 0 THEN 1 ELSE 0)
        /\ Cardinality(LengthFindings) =
              (IF NelemProduct # Len(row[Datacol].a) THEN 1 ELSE 0)
        /\ \A k \in LengthFindings :
              /\ res.chk.findings[k].exp = NelemProduct
              /\ res.chk.findings[k].act = Len(row[Datacol].a)

\* both kinds on one row: NELEM1 = 0, NELEM2 # 0, a non-empty active array
C13_Witness ==
    /\ ProductChecked /\ SlotOf(Datacol) = 2
    /\ row[NelemName(1)].n = 0 /\ row[NelemName(2)].n # 0 /\ Len(row[Datacol].a) >= 1
    /\ ZeroFindings(1) # {} /\ ZeroFindings(2) = {} /\ LengthFindings # {}

\* the two kinds apart: a zero NELEM1 with an empty active array (no length
\* finding)
C13_ZeroOnly ==
    /\ ProductChecked /\ row[NelemName(1)].n = 0 /\ row[Datacol].a = <<>>
    /\ ZeroFindings(1) # {} /\ LengthFindings = {}

\* the columns check_row compares with [0]: the data columns but the active
\* one, and the PARiVALUES columns above the active slot
ZeroArrayColumns ==
    IF EndsInIndex(num_par, Datacol)
    THEN { DataName(FamilyPart(Datacol), i) : i \in (1..num_par) \ {SlotOf(Datacol)} }
         \cup { ParValuesName(i) : i \in (SlotOf(Datacol) + 1)..num_par }
    ELSE { DataName(Datacol, i) : i \in 1..num_par }
         \cup { ParValuesName(i) : i \in 1..num_par }

FindingsOn(kind, c) ==
    { k \in 1..Len(res.chk.findings) :
        res.chk.findings[k].kind = kind /\ res.chk.findings[k].col = c }

\* C17: on a row whose addressed columns exist, each column compared with [0]
\* that holds a scalar gets a 'not an array' finding naming it, no
\* value-mismatch finding, and check_row does not abort.
C17_NotAnArray ==
    (PlainCase \/ ArrayCase) =>
        \A c \in ZeroArrayColumns :
            row[c].kind = "int" =>
                /\ res.chk.exc \notin {"UnboundLocalError", "AttributeError"}
                /\ Cardinality(FindingsOn("not_array", c)) = 1
                /\ FindingsOn("not_zero_array", c) = {}

\* what the code does for the PARiVALUES columns among them, when check_row
\* gets to their loop
C17_ParValuesNotAnArray ==
    ((PlainCase \/ ArrayCase) /\ res.chk.exc = "none") =>
        \A c \in ZeroArrayColumns :
            row[c].kind = "int" =>
                /\ Cardinality(FindingsOn("not_array", c)) = 1
                /\ FindingsOn("not_zero_array", c) = {}
                /\ \E i \in 1..num_par : c = ParValuesName(i)

C17_ParValuesScalar ==
    /\ PlainCase /\ res.chk.exc = "none" /\ row[ParValuesName(1)].kind = "int"
    /\ FindingsOn("not_array", ParValuesName(1)) # {}

----------------------------------------------------------------------------
(* Properties of the run (specification Spec)                              *)

\* a row lacks a parameter-indexed column that num_par = P requires
MalformedRow(P, r) == ~(SlotNames(P) \subseteq DOMAIN r)

\* one pass of the loop of check_ext_data on a table with a malformed row
MalformedPass ==
    /\ pc = "ext_loop" /\ pc' # "ext_loop" /\ pc' # "done"
    /\ \E j \in 1..Len(ext') : MalformedRow(num_par, ext'[j])

RunChecks == {"check_header_vals", "check_ext_data", "obsmode_prefix",
              "check_obsmode", "check_row_len", "check_row"}

\* C7: without PARNUM in the primary header the run ends in read_header with a
\* KeyError; no header-value, obsmode, row-shape or parameter-block check
\* runs, and the run does not end the way a completed one does.
C7_NoParnum ==
    ("PARNUM" \notin header.keys /\ pc \notin {"start", "keys_checked"}) =>
        /\ pc = "crashed" /\ exc = "KeyError"
        /\ ran = {"check_header_keys", "read_header"}
        /\ ran \cap RunChecks = {}
        /\ num_par = -1

C7_Witness ==
    "PARNUM" \notin header.keys /\ "NEXTEND" \in header.keys /\ pc = "crashed"

\* one pass of the loop of check_ext_data has got as far as calling check_rows
ExtChecked == pc \in {"ext_done", "crashed"} /\ "obsmode_prefix" \in res.steps

\* the findings of the row checks of the extension (all but the obsmode-prefix ones)
RowFindings == { k \in 1..Len(out) : out[k].kind # "obsmode_prefix" }

\* C11: for the extension at 1-based position k, check_rows is called with
\* ext_num = k and every finding of its rows reports extension k, also when the
\* obsmode prefix check of that extension has reported mismatching rows.
C11_ExtNum ==
    ExtChecked =>
        /\ res.ext_num = extPos
        /\ \A k \in RowFindings : out[k].ext = extPos

\* what holds of the code: the number is k only when no row mismatched
C11_ExtNumNoMismatch ==
    (ExtChecked /\ res.mism = <<>>) =>
        /\ res.ext_num = extPos
        /\ \A k \in RowFindings : out[k].ext = extPos

C11_Mismatch ==
    /\ ExtChecked /\ extPos = 1 /\ res.mism = <<1>> /\ res.ext_num = 2
    /\ \E k \in RowFindings : out[k].ext = 2

\* the check of the loop body of check_rows a finding comes from: 1 the obsmode
\* check, 2 the row-shape check, 3 the parameter-block check
Stage(f) == CASE f.kind = "obsmode_empty" -> 1
              [] f.kind = "obsmode_prefix" -> 1
              [] f.kind = "row_len" -> 2
              [] OTHER -> 3

HeaderKinds == {"no_key", "nextend"}

\* header findings are printed before any extension is checked, extension
\* findings after both header checks; extensions are taken in file order
HeaderThenExtensions ==
    /\ [](\A k \in 1..Len(out) :
            IF out[k].kind \in HeaderKinds THEN extPos = 0
            ELSE {"check_header_keys", "check_header_vals"} \subseteq ran /\ extPos >= 1)
    /\ [][extPos' # extPos =>
            /\ extPos' = extPos + 1
            /\ res' = check_ext(num_par, ext', extPos)
            /\ out' = res'.findings]_vars

\* C12 (as stated): header findings first, extensions in file order, within
\* one extension no finding about row j before a finding about a row i < j,
\* and for one row the obsmode, row-shape and parameter-block findings in
\* that order.
C12_RowOrder_AsStated ==
    /\ HeaderThenExtensions
    /\ [](ExtChecked =>
            \A a, b \in 1..Len(out) : a < b =>
                /\ out[a].row <= out[b].row
                /\ out[a].row = out[b].row => Stage(out[a]) <= Stage(out[b]))

\* C12 (amended): header findings first, extensions in file order; within one
\* extension the obsmode-prefix findings of all rows come first, in row order,
\* then the findings of the row checks in row order, and for one row the
\* empty-obsmode, row-shape and parameter-block findings in that order.
C12_PrefixThenRows ==
    /\ HeaderThenExtensions
    /\ [](ExtChecked =>
            \A a, b \in 1..Len(out) : a < b =>
                /\ b \notin RowFindings => a \notin RowFindings
                /\ (a \in RowFindings <=> b \in RowFindings) => out[a].row <= out[b].row
                /\ (a \in RowFindings /\ out[a].row = out[b].row)
                       => Stage(out[a]) <= Stage(out[b]))

\* a prefix finding about row 1 printed before findings of the row checks of
\* row 0, and row 1 with a finding of each of the three row checks
C12_Witness ==
    /\ ExtChecked /\ Len(out) >= 5
    /\ out[1].kind = "obsmode_prefix" /\ out[1].row = 1
    /\ out[2].row = 0 /\ Stage(out[2]) = 3
    /\ \E a, b, c \in RowFindings :
          /\ a < b /\ b < c
          /\ out[a].row = 1 /\ out[b].row = 1 /\ out[c].row = 1
          /\ Stage(out[a]) = 1 /\ Stage(out[b]) = 2 /\ Stage(out[c]) = 3

\* s without its leading and trailing blanks
Trimmed(s) ==
    LET ink == { k \in 1..Len(s) : s[k] # " " }
    IN  IF ink = {} THEN <<>>
        ELSE SubSeq(s, CHOOSE a \in ink : \A k \in ink : a <= k,
                       CHOOSE b \in ink : \A k \in ink : b >= k)

\* the part of s before its first comma
LeadingToken(s) ==
    LET commas == { k \in 1..Len(s) : s[k] = "," }
    IN  IF commas = {} THEN s
        ELSE SubSeq(s, 1, (CHOOSE a \in commas : \A k \in commas : a <= k) - 1)

\* the reference prefix of the extension
ReferencePrefix == LeadingToken(Trimmed(ext[1][s_obsmode].s))

\* row j (0-based) starts with the reference prefix
HasPrefix(j) ==
    LET o == ext[j + 1][s_obsmode].s
    IN  Len(o) >= Len(ReferencePrefix)
        /\ \A k \in 1..Len(ReferencePrefix) : o[k] = ReferencePrefix[k]

PrefixFindingsOf(j) ==
    { k \in 1..Len(out) : out[k].kind = "obsmode_prefix" /\ out[k].row = j }

\* C14: within one extension the obsmode consistency check prints exactly one
\* finding for each row whose obsmode does not start with the leading
\* comma-delimited token of row 0's trimmed obsmode, and none for the others.
C14_PrefixFindings ==
    ExtChecked =>
        /\ \A j \in 0..(Len(ext) - 1) :
              Cardinality(PrefixFindingsOf(j)) = (IF HasPrefix(j) THEN 0 ELSE 1)
        /\ \A k \in 1..Len(out) :
              out[k].kind = "obsmode_prefix" => out[k].row \in 0..(Len(ext) - 1)

\* row 0 'a,b' and a row 'a' that starts with the token but not with the
\* whole of row 0's obsmode: no finding
C14_Witness ==
    /\ ExtChecked /\ Len(ext) = 2
    /\ ext[1][s_obsmode].s = <<"a", ",", "b">> /\ ext[2][s_obsmode].s = <<"a">>
    /\ PrefixFindingsOf(0) = {} /\ PrefixFindingsOf(1) = {}

\* row 0 with a leading blank is reported against its own trimmed token
C14_RowZeroReported ==
    /\ ExtChecked /\ Len(ext) = 2
    /\ ext[1][s_obsmode].s = <<" ", "a">> /\ ext[2][s_obsmode].s = <<"a">>
    /\ PrefixFindingsOf(0) # {} /\ PrefixFindingsOf(1) = {}

EmptyFindingsOf(j) ==
    { k \in 1..Len(out) : out[k].kind = "obsmode_empty" /\ out[k].row = j }

\* C15: every row the loop of check_rows has reached gets an empty-obsmode
\* finding when its obsmode is empty after trimming (also one made only of
\* blanks), whether or not the prefix check reported the row.
C15_TrimmedEmpty ==
    ExtChecked =>
        \A j \in 0..(Len(res.rows) - 1) :
            Trimmed(ext[j + 1][s_obsmode].s) = <<>> => EmptyFindingsOf(j) # {}

\* what the code checks: the length of the obsmode as stored
C15_StoredEmpty ==
    ExtChecked =>
        \A j \in 0..(Len(res.rows) - 1) :
            Cardinality(EmptyFindingsOf(j)) = (IF ext[j + 1][s_obsmode].s = <<>> THEN 1 ELSE 0)

\* a row whose obsmode is one blank is checked and gets no empty-obsmode finding
C15_BlankUnreported ==
    /\ ExtChecked /\ Len(ext) = 1 /\ ext[1][s_obsmode].s = <<" ">>
    /\ Len(res.rows) = 1 /\ EmptyFindingsOf(0) = {}

\* one pass of the loop of check_ext_data has ended
ExtPassed == pc \in {"ext_done", "crashed"} /\ extPos >= 1

\* C16: an extension with no row or with one row passes the obsmode
\* consistency check with no finding and no fatal error, and the row checks
\* are gone on to.
C16_DegeneratePass ==
    (ExtPassed /\ Len(ext) <= 1) =>
        /\ "obsmode_prefix" \in res.steps
        /\ \A k \in 1..Len(out) : out[k].kind # "obsmode_prefix"
        /\ res.exc # "IndexError"

\* the same of an extension with no row alone
C16_EmptyPass ==
    (ExtPassed /\ Len(ext) = 0) => (pc = "ext_done" /\ res.exc = "none")

\* the same of an extension with one row alone
C16_SingleRowPass ==
    (ExtPassed /\ Len(ext) = 1) =>
        /\ "obsmode_prefix" \in res.steps
        /\ \A k \in 1..Len(out) : out[k].kind # "obsmode_prefix"

----------------------------------------------------------------------------
(* Properties of comp_fits (specification CompSpec)                        *)

ComparisonOrder == <<"length", "names", "size", "headers", "data">>

\* what the two files differ in, stated on the files
SameLength == Len(comp.fits1) = Len(comp.fits2)
SameNames  == \A k \in 1..Len(comp.fits1) : comp.fits1[k].name = comp.fits2[k].name
SameSize   == \A k \in 1..Len(comp.fits1) : comp.fits1[k].size = comp.fits2[k].size
SameBytes  == \A k \in 1..Len(comp.fits1) : comp.fits1[k].filebytes = comp.fits2[k].filebytes
SameKeys(k)   == DOMAIN comp.fits1[k].header = DOMAIN comp.fits2[k].header
SameValues(k) == \A key \in (DOMAIN comp.fits1[k].header) \ {"IRAF-TLM", "DATE"} :
                    comp.fits1[k].header[key] = comp.fits2[k].header[key]
SameHeaders == \A k \in 1..Len(comp.fits1) : SameKeys(k) /\ SameValues(k)
SameData ==
    \A k \in 1..Len(comp.fits1) :
        (/\ comp.fits1[k].class = "ImageHDU" /\ comp.fits2[k].class = "ImageHDU"
         /\ comp.fits1[k].data.isarray /\ comp.fits2[k].data.isarray)
        => comp.fits1[k].data = comp.fits2[k].data

\* the comparisons that pass on the two files, in the order of run_all_comps
Passes == <<SameLength, SameLength /\ SameNames, SameLength /\ SameSize /\ SameBytes,
            SameLength /\ SameHeaders, SameLength /\ SameData>>

\* the exceptions each comparison raises
ErrorsOf == <<{"FitsLengthError"}, {"FitsExtensionNamesError"}, {"FitsSizeError"},
              {"FitsHeaderKeyError", "FitsHeaderValueError"}, {"FitsDataError"}>>

\* the comparisons run so far are the first ones of the order
RunInOrder ==
    /\ Len(comp.calls) <= 5
    /\ comp.calls = SubSeq(ComparisonOrder, 1, Len(comp.calls))

\* C18: run_all_comps never returns False: the comparisons run in the order
\* length, names, size, headers, data; each returns True or raises, the first
\* failing one ends the run with its FitsError, and compare_size returns True
\* or raises FitsSizeError whatever sizes and filebytes agree or differ; so
\* comp_fits never prints 'Some tests failed but did not raise exceptions'.
C18_NeverFalse ==
    /\ RunInOrder
    /\ \A k \in 1..Len(comp.same) : comp.same[k] = TRUE
    /\ Len(comp.same) = Len(comp.calls) - (IF pc = "c_raised" THEN 1 ELSE 0)
    /\ \A k \in 1..Len(comp.same) : Passes[k]
    /\ pc = "c_raised" =>
          /\ ~Passes[Len(comp.calls)]
          /\ exc \in ErrorsOf[Len(comp.calls)]
          /\ ~comp.returned
    /\ (Len(comp.calls) >= 3 /\ ~(SameSize /\ SameBytes)) =>
          (pc = "c_raised" /\ exc = "FitsSizeError" /\ Len(comp.calls) = 3)
    /\ comp.returned => (comp.same_fits = TRUE /\ Len(comp.calls) = 5)
    /\ pc = "c_done" => out = <<PassedMsg>>
    /\ out # <<FailedMsg>>

\* the sizes agree, the filebytes differ: compare_size raises FitsSizeError
C18_Witness ==
    /\ pc = "c_raised" /\ exc = "FitsSizeError" /\ comp.calls = <<"length", "names", "size">>
    /\ SameSize /\ ~SameBytes

\* the other outcomes of compare_size, and a completed run
C18_SizesDiffer ==
    pc = "c_raised" /\ exc = "FitsSizeError" /\ ~SameSize /\ SameBytes
C18_BothDiffer ==
    pc = "c_raised" /\ exc = "FitsSizeError" /\ ~SameSize /\ ~SameBytes
C18_AllPassed ==
    pc = "c_done" /\ comp.same = <<TRUE, TRUE, TRUE, TRUE, TRUE>> /\ comp.fits1 # comp.fits2

----------------------------------------------------------------------------
(* Properties of check_header_keys (specification KeysSpec)                *)

KeyFindings(k) == { j \in 1..Len(out) : out[j].kind = "no_key" /\ out[j].key = k }

\* C8: check_header_keys prints exactly one finding for each of the 20 required
\* keys the header lacks, none for a key it has, and returns.
C8_OneFindingPerAbsentKey ==
    pc = "keys_checked" =>
        /\ exc = "none"
        /\ Cardinality(KeySet) = 20
        /\ Len(out) = Cardinality(KeySet \ header.keys)
        /\ \A k \in KeySet :
              Cardinality(KeyFindings(k)) = (IF k \in header.keys THEN 0 ELSE 1)

C8_Witness ==
    pc = "keys_checked" /\ KeySet \ header.keys = {"SIMPLE", "DESCRIP"} /\ Len(out) = 2

====
